---- MODULE Spec2Model ----
(***************************************************************************)
(* The PubSub example of AppliedGo/pubsub (src/pubsub.go): one server      *)
(* process running runServer on a pub socket, client processes running     *)
(* runClient on sub sockets, and the pub/sub transport between them.       *)
(* Byte strings are sequences of one-character strings.                    *)
(***************************************************************************)
EXTENDS Integers, Sequences, FiniteSets, TLC

\* ------------------------------------------------------------------ bounds

\* The most messages that wait on a pipe for a sub socket to look at them:
\* the socket looks at the oldest before the pipe takes one more.
PipeCap == 1

\* ------------------------------------------------------- program constants

\* runServer: for i := 0; i < 5; i++
ServerRounds == 5

\* runClient: for i := 0; i < 5*len(topics); i++
ClientFactor == 5

\* The client processes main spawns: client1, client2, client3.
Clients == {"C1", "C2", "C3"}

\* ---------------------------------------------------------------- strings

Technology == <<"T", "e", "c", "h", "n", "o", "l", "o", "g", "y">>
Weather == <<"W", "e", "a", "t", "h", "e", "r">>
Finance == <<"F", "i", "n", "a", "n", "c", "e">>
Tech == <<"T", "e", "c", "h">>

MessageFor == <<"M", "e", "s", "s", "a", "g", "e", " ", "f", "o", "r", " ">>

\* Topics of one letter, and a topic that holds the separator.
TopicA == <<"A">>
TopicB == <<"B">>
TopicLowerA == <<"a">>
TopicAPipeB == <<"a", "|", "b">>

\* A run of a server and two clients: the topic list runServer is given and
\* the topic lists the client processes are started with (os.Args[2:]).
Run(s, a, b) ==
  [server |-> s,
   clients |-> [c \in Clients |-> IF c = "C1" THEN a ELSE IF c = "C2" THEN b ELSE <<>>]]

\* The runs looked at: the server's list of main with one subscribing
\* client and one started without topics, and shorter server lists with two
\* subscribing clients.
Runs ==
  { Run(<<Technology, Weather, Finance>>, <<Weather>>, <<>>),
    Run(<<Technology, Weather, Finance>>, <<Tech>>, <<>>),
    Run(<<Technology, Finance>>, <<Technology, Weather, Finance>>, <<>>),
    Run(<<Technology, Weather>>, <<Technology, Weather>>, <<>>),
    Run(<<Technology>>, <<Tech>>, <<Technology, Weather>>),
    Run(<<Weather>>, <<Weather>>, <<Weather, Weather>>),
    Run(<<Technology>>, <<Weather>>, <<Technology>>),
    Run(<<TopicA, TopicB>>, <<TopicA>>, <<>>),
    Run(<<TopicAPipeB>>, <<TopicLowerA>>, <<>>) }

\* The processes of a run that is not started by main: the server and the
\* first two clients, each on its own.
Roles == {"C1", "C2"}

\* The elements of sequence q.
Range(q) == {q[i] : i \in 1..Len(q)}

\* fmt.Sprintf("%s|%s", topic, message)
Sprintf(topic, message) == topic \o <<"|">> \o message

\* A publish with the arguments of its format swapped.
publish_PayloadFirst(topic, message) == Sprintf(message, topic)

\* The bytes publish puts on the wire for (topic, message).
publish(topic, message) == Sprintf(topic, message)

\* bytes.HasPrefix: the sub socket "ignores any message that does not start
\* with the desired topic(s)".
HasPrefix(body, topic) ==
  /\ Len(topic) <= Len(body)
  /\ SubSeq(body, 1, Len(topic)) = topic

\* A socket that, once subscribed to anything, lets every message through.
Matches_AnySubscription(S, body) == S # {}

\* A socket that compares the subscription with the bytes before the first
\* "|" instead of with the start of the message.
Matches_WholeTopic(S, body) ==
  \E t \in S : \E n \in 1..Len(body) :
    body[n] = "|" /\ SubSeq(body, 1, n - 1) = t /\ \A i \in 1..(n - 1) : body[i] # "|"

\* Whether a sub socket with subscriptions S lets a message body through.
Matches(S, body) == \E t \in S : HasPrefix(body, t)

\* ------------------------------------------------------------------ state

VARIABLES
  mpc,           \* main's position in its server branch: at "start" or "wait"
                 \* with the number of the call, at "server", "ended" or
                 \* "fatal"; at "none" in a run without main
  serverTopics,  \* runServer's topics parameter
  clientTopics,  \* per client: runClient's topics parameter
  spc,           \* server position: "start", "loop", "done", "fatal"
  round,         \* runServer's i
  tidx,          \* index of the next topic in runServer's inner loop
  listening,     \* the pub socket is listening
  serr,          \* the error the server died of, or "none"
  sent,          \* the messages the pub socket accepted, in order
  cpc,           \* per client: "off" (not spawned), "start", "subscribe", "recv",
                 \* "done", "fatal"
  sidx,          \* per client: index of the next topic to subscribe to
  rcount,        \* per client: runClient's i in the receive loop
  subs,          \* per client: the sub socket's subscriptions
  deadline,      \* per client: OptionRecvDeadline is set on the socket
  connected,     \* per client: a pipe to the pub socket is attached
  pipe,          \* per client: messages sent to it that its socket has not looked at
  rq,            \* per client: the sub socket's receive queue
  delivered,     \* per client: the messages receive returned, in order
  cerr,          \* per client: the error the client died of, or "none"
  connAt,        \* per client: number of messages sent when the pipe attached
  early,         \* per client: a receive failed before the server had ended
  inTime         \* per client: it was attached and in its receive loop at the first send

vars ==
  << mpc, serverTopics, clientTopics, spc, round, tidx, listening, serr, sent,
     cpc, sidx, rcount, subs, deadline, connected, pipe, rq, delivered, cerr,
     connAt, early, inTime >>

serverVars == << spc, round, tidx, listening, serr, sent >>
\* What no step of runServer or runClient changes: the parameters, and
\* where main stands.
configVars == << mpc, serverTopics, clientTopics >>
clientVars ==
  << cpc, sidx, rcount, subs, deadline, connected, pipe, rq, delivered, cerr,
     connAt, early, inTime >>

\* The state of the sockets and counters before any process has run.
Fresh ==
  /\ round = 0
  /\ tidx = 1
  /\ listening = FALSE
  /\ serr = "none"
  /\ sent = <<>>
  /\ sidx = [c \in Clients |-> 1]
  /\ rcount = [c \in Clients |-> 0]
  /\ subs = [c \in Clients |-> {}]
  /\ deadline = [c \in Clients |-> FALSE]
  /\ connected = [c \in Clients |-> FALSE]
  /\ pipe = [c \in Clients |-> <<>>]
  /\ rq = [c \in Clients |-> <<>>]
  /\ delivered = [c \in Clients |-> <<>>]
  /\ cerr = [c \in Clients |-> "none"]
  /\ connAt = [c \in Clients |-> 0]
  /\ early = [c \in Clients |-> FALSE]
  /\ inTime = [c \in Clients |-> FALSE]

Init ==
  /\ \E r \in Runs : serverTopics = r.server /\ clientTopics = r.clients
  /\ mpc = [at |-> "none", k |-> 0]
  /\ spc = "start"
  /\ cpc = [c \in Clients |-> IF c \in Roles THEN "start" ELSE "off"]
  /\ Fresh

\* ----------------------------------------------------------------- server

\* A message on the wire: its bytes and its position in the send order.
\* pre marks a copy that was sent before its receiver subscribed to a topic
\* it starts with.
Msg(n, body) == [id |-> n, body |-> body, pre |-> FALSE]

\* Loops that run one round more.
ServerMore_OneMore(topics, r, t) == r <= ServerRounds /\ t <= Len(topics)

\* Whether runServer's loops have another iteration at (round r, topic t).
ServerMore(topics, r, t) == r < ServerRounds /\ t <= Len(topics)

\* runServer's loop position after the body ran for topic t of round r:
\* the next topic of the round, else the first topic of the next round.
ServerAfter(topics, r, t) ==
  IF t < Len(topics) THEN <<r, t + 1>> ELSE <<r + 1, 1>>

\* The messages of queue q that a socket with subscriptions S lets through.
\* A sub socket that passes on whatever reaches it.
Filter_KeepAll(q, S) == q

\* A sub socket that passes on each matching message twice.
Filter_Twice(q, S) ==
  LET f == SelectSeq(q, LAMBDA m : Matches(S, m.body)) IN f \o f

RECURSIVE Filter(_, _)
Filter(q, S) ==
  IF q = <<>> THEN <<>>
  ELSE IF Matches(S, Head(q).body) THEN <<Head(q)>> \o Filter(Tail(q), S)
  ELSE Filter(Tail(q), S)

\* A pub socket that also keeps messages for clients that have dialed but
\* are not attached yet.
Reached_Dialed == {c \in Clients : cpc[c] \in {"subscribe", "recv"}}

\* The clients a sent message reaches: those with a pipe attached, and no
\* other ("or to nirvana if no one is listening").
Reached == {c \in Clients : connected[c]}

\* A server that logs the error and goes on with its loop.
ServerFatal_GoOn == "loop"

\* What a fatal error of the server's does to its position.
ServerFatal == "fatal"

\* newPublisherSocket succeeds: the socket listens, and the loops start.
ServerListenOk ==
  /\ spc = "start"
  /\ listening' = TRUE
  /\ spc' = IF ServerMore(serverTopics, 0, 1) THEN "loop" ELSE "done"
  /\ UNCHANGED << round, tidx, serr, sent >>
  /\ UNCHANGED << configVars, clientVars >>

\* newPublisherSocket fails: log.Fatalf.
ServerListenFail ==
  /\ spc = "start"
  /\ spc' = ServerFatal
  /\ serr' = "BindError"
  /\ UNCHANGED << round, tidx, listening, sent >>
  /\ UNCHANGED << configVars, clientVars >>

\* A pub socket that takes a message only once a subscriber is attached.
CanSend_NeedsSubscriber == listening /\ Reached # {}

\* Whether the pub socket takes a message: it asks for no subscriber.
CanSend == listening

\* One pass of the inner loop body whose publish succeeds. The pub socket
\* hands a copy to every attached pipe. A sub socket whose subscriptions are
\* final (its client is in the receive loop) filters the copy the same
\* whenever it looks at it, so the copy is filtered here; a socket still
\* being subscribed keeps it on the pipe until SockReceive looks at it.
ServerPublishOk ==
  /\ spc = "loop"
  /\ CanSend
  /\ LET topic == serverTopics[tidx]
         m == Msg(Len(sent) + 1, publish(topic, MessageFor \o topic))
         nxt == ServerAfter(serverTopics, round, tidx)
     IN /\ sent' = Append(sent, m)
        /\ pipe' = [c \in Clients |->
                      IF c \in Reached /\ cpc[c] = "subscribe"
                      THEN IF Len(pipe[c]) < PipeCap THEN Append(pipe[c], m)
                           ELSE Append(Tail(pipe[c]), m)
                      ELSE pipe[c]]
        /\ rq' = [c \in Clients |->
                    IF c \in Reached /\ cpc[c] = "recv"
                    THEN rq[c] \o Filter(<<m>>, subs[c])
                    ELSE IF c \in Reached /\ Len(pipe[c]) >= PipeCap
                    THEN rq[c] \o Filter(<<Head(pipe[c])>>, subs[c])
                    ELSE rq[c]]
        /\ inTime' = [c \in Clients |->
                        IF sent = <<>> THEN c \in Reached /\ cpc[c] = "recv" ELSE inTime[c]]
        /\ round' = nxt[1]
        /\ tidx' = nxt[2]
        /\ spc' = IF ServerMore(serverTopics, nxt[1], nxt[2]) THEN "loop" ELSE "done"
  /\ UNCHANGED << listening, serr >>
  /\ UNCHANGED << configVars, cpc, sidx, rcount, subs, deadline, connected,
                  delivered, cerr, connAt, early >>

\* One pass of the inner loop body whose publish fails: log.Fatalf.
ServerPublishFail ==
  /\ spc = "loop"
  /\ spc' = ServerFatal
  /\ serr' = "SendError"
  /\ UNCHANGED << round, tidx, listening, sent >>
  /\ UNCHANGED << configVars, clientVars >>

\* ----------------------------------------------------------------- client

\* A receive loop bounded by the number of rounds alone.
Expected_RoundsOnly(topics) == IF topics = <<>> THEN 0 ELSE ClientFactor

\* A receive loop that runs for five messages at least, whatever the topics.
Expected_AtLeastFive(topics) ==
  IF topics = <<>> THEN ClientFactor ELSE ClientFactor * Len(topics)

\* The receive loop's bound.
Expected(topics) == ClientFactor * Len(topics)

\* runClient's position once it has subscribed to the topics before index k.
ClientAfterSubscribe(topics, k) ==
  IF k <= Len(topics) THEN "subscribe"
  ELSE IF 0 < Expected(topics) THEN "recv" ELSE "done"

\* A receive loop that stops one message short.
ClientAfterRecv_OneShort(topics, n) ==
  IF n + 1 < Expected(topics) THEN "recv" ELSE "done"

\* runClient's position once receive has returned n messages.
ClientAfterRecv(topics, n) ==
  IF n < Expected(topics) THEN "recv" ELSE "done"

\* A client that logs the error and receives again.
ClientRecvFatal_Retry == "recv"

\* What a failed receive does to runClient's position: log.Fatalf.
ClientRecvFatal == "fatal"

\* A process that has ended holds no socket: its pipe and queue are gone.
Alive(c) == cpc[c] \in {"subscribe", "recv"}
Ended(pc) == pc \in {"done", "fatal"}

\* newSubscriberSocket succeeds. Dial returns at once; the pipe to the
\* publisher attaches in the background (Connect).
ClientDialOk(c) ==
  /\ cpc[c] = "start"
  /\ cpc' = [cpc EXCEPT ![c] = ClientAfterSubscribe(clientTopics[c], 1)]
  /\ UNCHANGED << configVars, serverVars, sidx, rcount, subs, deadline,
                  connected, pipe, rq, delivered, cerr, connAt, early, inTime >>

\* newSubscriberSocket fails: log.Fatalf.
ClientDialFail(c) ==
  /\ cpc[c] = "start"
  /\ cpc' = [cpc EXCEPT ![c] = "fatal"]
  /\ cerr' = [cerr EXCEPT ![c] = "ConnectError"]
  /\ UNCHANGED << configVars, serverVars, sidx, rcount, subs, deadline,
                  connected, pipe, rq, delivered, connAt, early, inTime >>

\* The transport attaches the client's pipe to the listening pub socket.
Connect(c) ==
  /\ Alive(c)
  /\ listening
  /\ spc # "fatal"
  /\ ~connected[c]
  /\ connected' = [connected EXCEPT ![c] = TRUE]
  /\ connAt' = [connAt EXCEPT ![c] = Len(sent)]
  /\ UNCHANGED << configVars, serverVars, cpc, sidx, rcount, subs, deadline,
                  pipe, rq, delivered, cerr, early, inTime >>

\* The subscriptions after SetOption(OptionSubscribe, topic).
AddSubscription(S, topic) == S \cup {topic}

\* The pipe's copies, marked where the new subscription is the first to
\* match a copy sent before it.
Marked(q, S, topic) ==
  [i \in 1..Len(q) |->
     IF HasPrefix(q[i].body, topic) /\ ~Matches(S, q[i].body)
     THEN [q[i] EXCEPT !.pre = TRUE] ELSE q[i]]

\* A subscribe whose test of the first SetOption's error is inverted: the
\* deadline is set only after a failure.
SubscribeSetsDeadline_Inverted == FALSE

\* Whether a successful subscribe has set OptionRecvDeadline: it has, since
\* err == nil after the first SetOption.
SubscribeSetsDeadline == TRUE

\* subscribe succeeds: both options are set. After the last subscribe the
\* subscriptions are final, and what is left on the pipe is filtered.
ClientSubscribeOk(c) ==
  /\ cpc[c] = "subscribe"
  /\ LET topic == clientTopics[c][sidx[c]]
         S == AddSubscription(subs[c], topic)
         q == Marked(pipe[c], subs[c], topic)
         pc == ClientAfterSubscribe(clientTopics[c], sidx[c] + 1)
     IN /\ subs' = [subs EXCEPT ![c] = S]
        /\ cpc' = [cpc EXCEPT ![c] = pc]
        /\ pipe' = [pipe EXCEPT ![c] = IF pc = "subscribe" THEN q ELSE <<>>]
        /\ rq' = [rq EXCEPT ![c] = IF pc = "subscribe" THEN @ ELSE @ \o Filter(q, S)]
  /\ deadline' = [deadline EXCEPT ![c] = @ \/ SubscribeSetsDeadline]
  /\ sidx' = [sidx EXCEPT ![c] = @ + 1]
  /\ UNCHANGED << configVars, serverVars, rcount, connected, delivered, cerr,
                  connAt, early, inTime >>

\* subscribe fails, at the first SetOption (nothing is set) or at the
\* second (the topic is subscribed, the deadline is not set): log.Fatalf.
ClientSubscribeFail(c) ==
  /\ cpc[c] = "subscribe"
  /\ \E first \in BOOLEAN :
       subs' = [subs EXCEPT ![c] =
                  IF first THEN @ ELSE AddSubscription(@, clientTopics[c][sidx[c]])]
  /\ cpc' = [cpc EXCEPT ![c] = "fatal"]
  /\ cerr' = [cerr EXCEPT ![c] = "SubscriptionError"]
  /\ connected' = [connected EXCEPT ![c] = FALSE]
  /\ pipe' = [pipe EXCEPT ![c] = <<>>]
  /\ rq' = [rq EXCEPT ![c] = <<>>]
  /\ UNCHANGED << configVars, serverVars, sidx, rcount, deadline, delivered,
                  connAt, early, inTime >>

\* The sub socket looks at the next message on the pipe while its client
\* is still subscribing: one that matches a subscription goes to the
\* receive queue, any other is dropped.
SockReceive(c) ==
  /\ cpc[c] = "subscribe"
  /\ pipe[c] # <<>>
  /\ pipe' = [pipe EXCEPT ![c] = Tail(@)]
  /\ rq' = [rq EXCEPT ![c] = @ \o Filter(<<Head(pipe[c])>>, subs[c])]
  /\ UNCHANGED << configVars, serverVars, cpc, sidx, rcount, subs, deadline,
                  connected, delivered, cerr, connAt, early, inTime >>

\* A receive that subscribes the socket to the topic of what it returns.
SubsAfterRecv_Learn(S, m) ==
  S \cup {SubSeq(m.body, 1, CHOOSE n \in 0..Len(m.body) :
                              /\ n < Len(m.body) => m.body[n + 1] = "|"
                              /\ \A i \in 1..n : m.body[i] # "|")}

\* The subscriptions after receive has returned message m: socket.Recv
\* sets no option.
SubsAfterRecv(S, m) == S

\* receive returns a message, and the loop body prints it.
ClientRecvOk(c) ==
  /\ cpc[c] = "recv"
  /\ rq[c] # <<>>
  /\ LET pc == ClientAfterRecv(clientTopics[c], rcount[c] + 1)
     IN /\ cpc' = [cpc EXCEPT ![c] = pc]
        /\ connected' = [connected EXCEPT ![c] = IF Ended(pc) THEN FALSE ELSE @]
        /\ rq' = [rq EXCEPT ![c] = IF Ended(pc) THEN <<>> ELSE Tail(@)]
  /\ delivered' = [delivered EXCEPT ![c] = Append(@, Head(rq[c]))]
  /\ rcount' = [rcount EXCEPT ![c] = @ + 1]
  /\ subs' = [subs EXCEPT ![c] = SubsAfterRecv(@, Head(rq[c]))]
  /\ UNCHANGED << configVars, serverVars, sidx, deadline, pipe, cerr,
                  connAt, early, inTime >>

\* A failed receive: log.Fatalf ends the process with error e.
RecvFailed(c, e) ==
  /\ cerr' = [cerr EXCEPT ![c] = e]
  /\ cpc' = [cpc EXCEPT ![c] = ClientRecvFatal]
  /\ early' = [early EXCEPT ![c] = ~Ended(spc)]
  /\ connected' = [connected EXCEPT ![c] = FALSE]
  /\ UNCHANGED << configVars, serverVars, sidx, rcount, subs, deadline, pipe,
                  rq, delivered, connAt, inTime >>

\* A socket whose receive never gives up.
CanTimeOut_Never(c) == FALSE

\* Whether a pending receive with an empty queue gives up: only a socket
\* with OptionRecvDeadline set does.
CanTimeOut(c) == deadline[c]

\* receive fails: the deadline passes with nothing in the queue.
ClientRecvTimeout(c) ==
  /\ cpc[c] = "recv"
  /\ rq[c] = <<>>
  /\ CanTimeOut(c)
  /\ RecvFailed(c, "Timeout")

\* receive fails: the socket reports the connection closed.
ClientRecvClosed(c) ==
  /\ cpc[c] = "recv"
  /\ rq[c] = <<>>
  /\ RecvFailed(c, "ConnectionClosed")

\* ---------------------------------------------------------- specification

Next ==
  \/ ServerListenOk
  \/ ServerListenFail
  \/ ServerPublishOk
  \/ ServerPublishFail
  \/ \E c \in Clients : ClientDialOk(c)
  \/ \E c \in Clients : ClientDialFail(c)
  \/ \E c \in Clients : Connect(c)
  \/ \E c \in Clients : ClientSubscribeOk(c)
  \/ \E c \in Clients : ClientSubscribeFail(c)
  \/ \E c \in Clients : SockReceive(c)
  \/ \E c \in Clients : ClientRecvOk(c)
  \/ \E c \in Clients : ClientRecvTimeout(c)
  \/ \E c \in Clients : ClientRecvClosed(c)

Spec == Init /\ [][Next]_vars

\* The runs with scheduling: a process that can take its next step takes it
\* (the server's sleeps end, a receive with a message queued returns it),
\* and a receive whose deadline has passed fails. A socket error, a failed
\* dial or listen, and the attaching of a pipe happen or not.
Fairness ==
  /\ WF_vars(ServerListenOk \/ ServerListenFail)
  /\ WF_vars(ServerPublishOk \/ ServerPublishFail)
  /\ \A c \in Clients :
       /\ WF_vars(ClientDialOk(c) \/ ClientDialFail(c))
       /\ WF_vars(ClientSubscribeOk(c) \/ ClientSubscribeFail(c))
       /\ WF_vars(ClientRecvOk(c))
       /\ WF_vars(ClientRecvTimeout(c))

\* The runs the scheduled specification starts from.
LiveRuns ==
  { Run(<<Technology, Finance>>, <<Weather>>, <<>>),
    Run(<<Technology>>, <<Weather>>, <<Technology>>) }

LiveInit ==
  /\ \E r \in LiveRuns : serverTopics = r.server /\ clientTopics = r.clients
  /\ mpc = [at |-> "none", k |-> 0]
  /\ spc = "start"
  /\ cpc = [c \in Clients |-> IF c \in Roles THEN "start" ELSE "off"]
  /\ Fresh

LiveSpec == LiveInit /\ [][Next]_vars /\ Fairness

\* ------------------------------------------------------------------- main

\* The client processes in the order main starts them, and the processes
\* its three Wait calls wait for: client1, client2 and client2 again.
Started == <<"C1", "C2", "C3">>
Waited == <<"C1", "C2", "C2">>

\* The arguments main gives the client processes and runServer.
DemoClientTopics ==
  [c \in Clients |-> IF c = "C1" THEN <<Technology>>
                     ELSE IF c = "C2" THEN <<Technology, Weather>>
                     ELSE <<Finance>>]
DemoServerTopics == <<Technology, Weather, Finance>>

\* main's position after its k-th Start and after its k-th Wait.
MainAfterStart(k) ==
  IF k < Len(Started) THEN [at |-> "start", k |-> k + 1] ELSE [at |-> "server", k |-> 0]
MainAfterWait(k) ==
  IF k < Len(Waited) THEN [at |-> "wait", k |-> k + 1] ELSE [at |-> "ended", k |-> 0]

\* Start succeeds: the client process exists and main goes on without
\* waiting for it; after the last Start main calls runServer.
MainStartOk ==
  /\ mpc.at = "start"
  /\ cpc' = [cpc EXCEPT ![Started[mpc.k]] = "start"]
  /\ mpc' = MainAfterStart(mpc.k)
  /\ spc' = IF mpc'.at = "server" THEN "start" ELSE spc
  /\ UNCHANGED << serverTopics, clientTopics, round, tidx, listening, serr, sent,
                  sidx, rcount, subs, deadline, connected, pipe, rq, delivered,
                  cerr, connAt, early, inTime >>

\* Start fails: log.Fatalf ends main; the clients started before go on.
MainStartFail ==
  /\ mpc.at = "start"
  /\ mpc' = [at |-> "fatal", k |-> 0]
  /\ UNCHANGED << serverTopics, clientTopics, serverVars, clientVars >>

\* runServer returns; main sleeps a second and comes to its first Wait.
MainServerReturns ==
  /\ mpc.at = "server"
  /\ spc = "done"
  /\ mpc' = [at |-> "wait", k |-> 1]
  /\ UNCHANGED << serverTopics, clientTopics, serverVars, clientVars >>

\* log.Fatalf in runServer ends the process main runs in.
MainServerFatal ==
  /\ mpc.at = "server"
  /\ spc = "fatal"
  /\ mpc' = [at |-> "fatal", k |-> 0]
  /\ UNCHANGED << serverTopics, clientTopics, serverVars, clientVars >>

\* Wait returns once the process it waits for has ended; its result is
\* ignored. After the last Wait main prints "Server ends.".
MainWait ==
  /\ mpc.at = "wait"
  /\ Ended(cpc[Waited[mpc.k]])
  /\ mpc' = MainAfterWait(mpc.k)
  /\ UNCHANGED << serverTopics, clientTopics, serverVars, clientVars >>

\* The demo as main runs it, before the first Start.
DemoInit ==
  /\ serverTopics = DemoServerTopics
  /\ clientTopics = DemoClientTopics
  /\ mpc = [at |-> "start", k |-> 1]
  /\ spc = "off"
  /\ cpc = [c \in Clients |-> "off"]
  /\ Fresh

\* The demo runs looked at are those in which the clients main waits for
\* are on schedule: each is attached and in its receive loop at the first
\* send, takes a message before the next one is sent, and meets no error,
\* so that main comes to its last step. The third client is left to the
\* scheduler. Every such run is a run of the program; the runs left out are
\* not, so this specification serves to find runs, not to exclude them.
OnSchedule ==
  \A c \in Range(Waited) :
    /\ cerr[c] = "none"
    /\ sent # <<>> => inTime[c]
    /\ Len(rq[c]) <= 1

DemoNext ==
  \/ ServerListenOk /\ OnSchedule'
  \/ ServerListenFail /\ OnSchedule'
  \/ ServerPublishOk /\ OnSchedule'
  \/ ServerPublishFail /\ OnSchedule'
  \/ (\E c \in Clients : ClientDialOk(c)) /\ OnSchedule'
  \/ (\E c \in Clients : ClientDialFail(c)) /\ OnSchedule'
  \/ (\E c \in Clients : Connect(c)) /\ OnSchedule'
  \/ (\E c \in Clients : ClientSubscribeOk(c)) /\ OnSchedule'
  \/ (\E c \in Clients : ClientSubscribeFail(c)) /\ OnSchedule'
  \/ (\E c \in Clients : SockReceive(c)) /\ OnSchedule'
  \/ (\E c \in Clients : ClientRecvOk(c)) /\ OnSchedule'
  \/ (\E c \in Clients : ClientRecvTimeout(c)) /\ OnSchedule'
  \/ (\E c \in Clients : ClientRecvClosed(c)) /\ OnSchedule'
  \/ MainStartOk /\ OnSchedule'
  \/ MainStartFail /\ OnSchedule'
  \/ MainServerReturns /\ OnSchedule'
  \/ MainServerFatal /\ OnSchedule'
  \/ MainWait /\ OnSchedule'

DemoSpec == DemoInit /\ [][DemoNext]_vars

\* ----------------------------------------------------------------- claims

\* The topic of a message: the bytes before the first "|".
RECURSIVE TopicOf(_)
TopicOf(body) ==
  IF body = <<>> \/ Head(body) = "|" THEN <<>>
  ELSE <<Head(body)>> \o TopicOf(Tail(body))

\* Whether byte string b starts with byte string t.
StartsWith(b, t) ==
  /\ Len(t) <= Len(b)
  /\ \A i \in 1..Len(t) : b[i] = t[i]

\* The topics of the messages delivered to client c, in order.
DeliveredTopics(c) == [i \in 1..Len(delivered[c]) |-> TopicOf(delivered[c][i].body)]

\* C1. Topic isolation: when the server publishes Technology, Weather and
\* Finance, a client subscribed only to Weather is never delivered a message
\* whose topic is Technology or Finance.
C1_TopicIsolation ==
  \A c \in Clients :
    (serverTopics = <<Technology, Weather, Finance>> /\ clientTopics[c] = <<Weather>>)
      => \A i \in 1..Len(delivered[c]) :
           DeliveredTopics(c)[i] \notin {Technology, Finance}

\* A Weather-only client has received all its five messages while the
\* server published all fifteen of the three topics.
C1_Witness ==
  \E c \in Clients :
    /\ serverTopics = <<Technology, Weather, Finance>>
    /\ clientTopics[c] = <<Weather>>
    /\ Len(sent) = 15
    /\ cpc[c] = "done"
    /\ DeliveredTopics(c) = [i \in 1..5 |-> Weather]

Bodies(q) == [i \in 1..Len(q) |-> q[i].body]

\* The message the server sends for topic t.
Wire(t) == t \o <<"|">> \o <<"M", "e", "s", "s", "a", "g", "e", " ", "f", "o", "r", " ">> \o t

\* Ideal timing for client c: it was attached and had subscribed to all its
\* topics before the first send, and no receive of its failed before the
\* server had sent its last message.
IdealTiming(c) == inTime[c] /\ ~early[c]

C5_EmissionOrder ==
  /\ \A k \in 1..Len(sent) :
       sent[k].body = Wire(serverTopics[((k - 1) % Len(serverTopics)) + 1])
  /\ Len(sent) <= 5 * Len(serverTopics)
  /\ spc = "done" => Len(sent) = 5 * Len(serverTopics)

\* The server has completed its five rounds over three topics.
C5_Witness ==
  /\ spc = "done"
  /\ Len(serverTopics) = 3
  /\ Len(sent) = 15
  /\ TopicOf(sent[15].body) = Finance
  /\ TopicOf(sent[13].body) = Technology

\* A client none of whose topics starts a message the server publishes.
Idle(c) ==
  \A i \in 1..Len(serverTopics) : \A t \in Range(clientTopics[c]) :
    ~StartsWith(Wire(serverTopics[i]), t)

\* C4. Timeout liveness: a pending receive does not stay blocked forever.
\* A client in its receive loop eventually ends, and one to which no
\* matching message is ever sent ends in failure, not normally.
C4_TimeoutLiveness ==
  \A c \in Clients :
    (cpc[c] = "recv") ~> (IF Idle(c) THEN cpc[c] = "fatal" ELSE Ended(cpc[c]))

\* An idle client has ended in Timeout after the server sent all its
\* messages, none of which was delivered to it.
C4_Witness ==
  \E c \in Clients :
    /\ Idle(c)
    /\ clientTopics[c] # <<>>
    /\ spc = "done"
    /\ cerr[c] = "Timeout"
    /\ delivered[c] = <<>>

\* C6. Fire-and-forget: whatever the clients do, a server in its loop can
\* publish; no state of the clients holds it up.
C6_PublishNeverWaits ==
  /\ spc = "loop" => ENABLED ServerPublishOk
  /\ spc = "done" => Len(sent) = 5 * Len(serverTopics)

\* The server has completed all its sends while no client had so much as
\* dialed.
C6_Witness ==
  /\ spc = "done"
  /\ Len(sent) = 5 * Len(serverTopics)
  /\ \A c \in Clients : cpc[c] \in {"off", "start"}

\* Every copy of a message that client c holds or was delivered.
Held(c) == Range(pipe[c]) \cup Range(rq[c]) \cup Range(delivered[c])

\* C7 as claimed. No client is delivered a message that was sent before the
\* client was attached and subscribed to a topic the message matches.
C7_NoDeliveryBeforeSubscription ==
  \A c \in Clients : \A i \in 1..Len(delivered[c]) :
    /\ delivered[c][i].id > connAt[c]
    /\ ~delivered[c][i].pre

\* C7 as amended. No client is delivered, or holds, a message that was sent
\* before the client's pipe was attached.
C7_NoDeliveryBeforeConnection ==
  \A c \in Clients : \A m \in Held(c) : m.id > connAt[c]

\* A client that attached after the first messages were sent has been
\* delivered later ones, and none of those it missed.
C7_Witness ==
  \E c \in Clients :
    /\ connAt[c] >= 2
    /\ Len(delivered[c]) >= 2
    /\ delivered[c][1].id > connAt[c]

\* C8. Publisher fail-fast: a failed publish ends the run there; the message
\* is not sent again and no further message is sent.
C8_PublisherFailFast ==
  [][serr' = "SendError" => (spc' = "fatal" /\ sent' = sent /\ round' = round /\ tidx' = tidx)]_vars

\* The server failed in its second round, and clients went on after it.
C8_Witness ==
  /\ serr = "SendError"
  /\ spc = "fatal"
  /\ round = 1
  /\ Len(sent) = Len(serverTopics) + 1
  /\ \E c \in Clients : Len(delivered[c]) >= 1

\* C9. Subscriber fail-fast: a receive that fails with Timeout or
\* ConnectionClosed ends the run with that error; the client receives no
\* more, is delivered no more, and does not end normally.
C9_SubscriberFailFast ==
  [][\A c \in Clients :
       cerr'[c] \in {"Timeout", "ConnectionClosed"}
         => /\ cpc'[c] = "fatal"
            /\ delivered'[c] = delivered[c]
            /\ rcount'[c] = rcount[c]
            /\ cerr[c] \in {"none", cerr'[c]}]_vars

\* A client failed with Timeout after some deliveries, another with
\* ConnectionClosed, and the server sent more messages afterwards.
C9_Witness ==
  \E c, d \in Clients :
    /\ cerr[c] = "Timeout"
    /\ cerr[d] = "ConnectionClosed"
    /\ Len(delivered[c]) >= 1
    /\ Len(delivered[c]) < 5 * Len(clientTopics[c])
    /\ early[c]
    /\ sent[Len(sent)].id > delivered[c][Len(delivered[c])].id + 1

\* C10. Bounded receive loop: a client is delivered at most 5 * len(topics)
\* messages; it is in its receive loop only with fewer, and it ends normally
\* exactly with that many.
C10_BoundedReceiveLoop ==
  \A c \in Clients :
    /\ Len(delivered[c]) <= 5 * Len(clientTopics[c])
    /\ rcount[c] = Len(delivered[c])
    /\ cpc[c] = "recv" => Len(delivered[c]) < 5 * Len(clientTopics[c])
    /\ cpc[c] = "done" => Len(delivered[c]) = 5 * Len(clientTopics[c])

\* A client with two topics has ended normally with ten messages.
C10_Witness ==
  \E c \in Clients :
    /\ Len(clientTopics[c]) = 2
    /\ cpc[c] = "done"
    /\ Len(delivered[c]) = 10

\* A message reaches the socket of client c in this step: the server sends
\* it while c is in its receive loop, or the socket takes it off the pipe
\* while c is still subscribing.
Arrives(c, m) ==
  \/ /\ connected[c] /\ cpc[c] = "recv"
     /\ Len(sent') = Len(sent) + 1
     /\ m = sent'[Len(sent')]
  \/ /\ cpc[c] = "subscribe" /\ cpc'[c] = "subscribe"
     /\ sent' = sent
     /\ pipe[c] # <<>> /\ pipe'[c] = Tail(pipe[c])
     /\ m = Head(pipe[c])

\* What client c's receive loop can see is as before.
Untouched(c) ==
  /\ rq'[c] = rq[c]
  /\ delivered'[c] = delivered[c]
  /\ rcount'[c] = rcount[c]
  /\ cerr'[c] = cerr[c]
  /\ cpc'[c] = cpc[c]

Scenario(c) == serverTopics = <<TopicA, TopicB>> /\ clientTopics[c] = <<TopicA>>

C13_DuplicateTopicIdempotent ==
  \A c, d \in Clients :
    (Range(clientTopics[c]) = Range(clientTopics[d]) /\ clientTopics[c] # <<>>)
      => /\ (cpc[c] = "recv" /\ cpc[d] = "recv") => subs[c] = subs[d]
         /\ (cpc[c] = "done" /\ cpc[d] = "done")
              => Len(delivered[c]) = Len(delivered[d])
         /\ ( /\ IdealTiming(c) /\ IdealTiming(d)
              /\ spc = "done" /\ Ended(cpc[c]) /\ Ended(cpc[d]) )
              => /\ cpc[c] = cpc[d]
                 /\ cerr[c] = cerr[d]
                 /\ Bodies(delivered[c]) = Bodies(delivered[d])

\* C14. Empty subscription set: a client started with no topic subscribes
\* to nothing and never waits for a message; nothing is queued for it and
\* nothing is delivered to it, whatever the server sends.
C14_EmptyTopicList ==
  \A c \in Clients :
    clientTopics[c] = <<>>
      => /\ subs[c] = {}
         /\ cpc[c] \notin {"subscribe", "recv"}
         /\ rq[c] = <<>>
         /\ delivered[c] = <<>>

\* A client started with no topic has ended normally with nothing
\* delivered, its pipe attached from the start, and the server has sent all
\* fifteen messages.
C14_Witness ==
  \E c \in Roles :
    /\ clientTopics[c] = <<>>
    /\ connAt[c] = 0
    /\ cpc[c] = "done" /\ cerr[c] = "none"
    /\ Len(sent) = 15
    /\ delivered[c] = <<>>

\* The topic the server published its n-th message for.
PublishedTopic(n) == serverTopics[((n - 1) % Len(serverTopics)) + 1]

\* C15. Encode rejection: publishing for a topic that contains the
\* separator "|" fails and puts nothing on the wire, so no message sent was
\* published for such a topic.
C15_SeparatorTopicRejected ==
  \A n \in 1..Len(sent) : "|" \notin Range(PublishedTopic(n))

\* C16. Subscription set frozen during receiving: a client's subscription
\* set changes only in its subscribe phase, before its first receive; every
\* step of its receive loop, whether it delivers a message or fails, and
\* every step after the loop leaves the set as it was.
C16_SubscriptionsFrozen ==
  [][\A c \in Clients :
       /\ subs'[c] # subs[c]
            => (cpc[c] = "subscribe" /\ rcount[c] = 0 /\ delivered[c] = <<>>)
       /\ cpc[c] \in {"recv", "done", "fatal"} => subs'[c] = subs[c]]_vars

\* A client with two subscriptions is in its receive loop and has been
\* delivered messages of both topics.
C16_Witness ==
  \E c \in Clients :
    /\ cpc[c] = "recv"
    /\ subs[c] = {Technology, Weather}
    /\ Len(delivered[c]) >= 2
    /\ {Technology, Weather} \subseteq Range(DeliveredTopics(c))

\* C18. No receive without a deadline: a client that is in its receive
\* loop, or has performed a receive, has the receive deadline set on its
\* socket; a client started with no topic never sets one and never
\* receives.
C18_DeadlineBeforeReceive ==
  \A c \in Clients :
    /\ ( \/ cpc[c] = "recv"
         \/ rcount[c] > 0
         \/ cerr[c] \in {"Timeout", "ConnectionClosed"} ) => deadline[c]
    /\ clientTopics[c] = <<>> => (~deadline[c] /\ cpc[c] # "recv" /\ rcount[c] = 0)

\* One client has received a message with its deadline set, while a client
\* started with no topic has ended without a deadline and without a
\* receive.
C18_Witness ==
  \E c, d \in Roles :
    /\ cpc[c] = "recv" /\ deadline[c] /\ rcount[c] >= 1
    /\ clientTopics[d] = <<>> /\ cpc[d] = "done" /\ ~deadline[d]

\* C19. No fabrication, duplication or reordering: the messages delivered
\* to a client are a subsequence of the messages sent; each is one the
\* server sent, with the bytes it was sent with, and they are delivered in
\* the order sent, none of them twice.
C19_DeliveredSubsequenceOfSent ==
  \A c \in Clients :
    /\ \A i \in 1..Len(delivered[c]) :
         /\ delivered[c][i].id \in 1..Len(sent)
         /\ delivered[c][i].body = sent[delivered[c][i].id].body
    /\ \A i, j \in 1..Len(delivered[c]) :
         i < j => delivered[c][i].id < delivered[c][j].id

\* A client that attached after the first send has been delivered, in
\* order, three of the later messages but not all of them.
C19_Witness ==
  \E c \in Clients :
    /\ Len(delivered[c]) = 3
    /\ delivered[c][1].id > 1
    /\ delivered[c][3].id > delivered[c][1].id + 2
    /\ Len(sent) > delivered[c][3].id

\* C17. The server waits for all clients: main comes to its last step,
\* printing "Server ends.", only after each of the three client processes
\* it started has ended.
C17_ServerEndsAfterAllClients ==
  mpc.at = "ended" => \A c \in Range(Started) : Ended(cpc[c])

\* C20. Demo start-up: in the demo main runs, every client is attached and
\* has completed its subscriptions when the server sends its first message,
\* so no client's receive ends in Timeout, and a client that has ended has
\* ended normally with all the 5 * len(topics) messages it waits for.
C20_DemoStartUp ==
  \A c \in Range(Started) :
    /\ sent # <<>> => inTime[c]
    /\ cerr[c] # "Timeout"
    /\ cpc[c] = "done" => Len(delivered[c]) = Expected(clientTopics[c])

====
